---- MODULE Spec2Model ----
(***************************************************************************)
(* A state-machine model of the MODFLOW package readers and writers of     *)
(* flopy: ModflowEvt (mfevt.py) and ModflowRch (mfrch.py).                  *)
(*                                                                         *)
(* A text stream is a sequence of lines, a line is a sequence of           *)
(* whitespace-separated tokens (what line.strip().split() yields), and a   *)
(* token is an integer literal, a non-integer numeric literal or a word.   *)
(* Words are sequences of character codes, so that lower() and the         *)
(* ten-character truncation of parameter names are computed, not assumed.  *)
(***************************************************************************)
EXTENDS Integers, Sequences, FiniteSets, TLC

\* ------------------------------------------------------------------ bounds
\* Largest number of stress periods of the model geometry.
MaxPer == 2
\* Largest number of lines of a file that is not produced by write_file.
MaxLines == 6

\* ------------------------------------------------------------------ tokens
None == "None"

\* An integer literal n; a literal with a decimal point or exponent, held in
\* thousandths (FloatTok(1500) is 1.5); a word.
IntTok(n) == [k |-> "int", n |-> n, s |-> <<>>]
FloatTok(m) == [k |-> "float", n |-> m, s |-> <<>>]
StrTok(s) == [k |-> "str", n |-> 0, s |-> s]

\* "#"
Hash == <<35>>
\* "parameter"
WParameter == <<112, 97, 114, 97, 109, 101, 116, 101, 114>>
\* "PARAMETER"
WPARAMETER == <<80, 65, 82, 65, 77, 69, 84, 69, 82>>
\* "RCH"
WRCH == <<82, 67, 72>>
\* "EVT"
WEVT == <<69, 86, 84>>
\* "constant"
WConstant == <<99, 111, 110, 115, 116, 97, 110, 116>>

\* str.lower() on one character and on a word
LowerChar(c) == IF c >= 65 /\ c <= 90 THEN c + 32 ELSE c
Lower(s) == [i \in 1..Len(s) |-> LowerChar(s[i])]

\* A line as readline() returns it: eof is the empty string '' of an
\* exhausted stream, toks is line.strip().split().
Line(toks) == [eof |-> FALSE, toks |-> toks]
EOF == [eof |-> TRUE, toks |-> <<>>]

\* line[0] != '#' raises IndexError on '' ; otherwise compares the first character
FirstCharIsHash(l) ==
    /\ l.toks # <<>>
    /\ l.toks[1].k = "str"
    /\ l.toks[1].s # <<>>
    /\ l.toks[1].s[1] = Hash[1]

\* w in s, for words
IsSubstr(w, s) ==
    \E i \in 1..Len(s) : i + Len(w) - 1 <= Len(s) /\ SubSeq(s, i, i + Len(w) - 1) = w

\* "parameter" in line.lower()
MentionsParameter(l) ==
    \E i \in 1..Len(l.toks) :
        l.toks[i].k = "str" /\ IsSubstr(WParameter, Lower(l.toks[i].s))

\* IntAt that takes a field the line does not have as the code -1.
IntAtDefault(t, i) ==
    IF i + 1 > Len(t) THEN [ok |-> TRUE, err |-> "", n |-> -1]
    ELSE IF t[i + 1].k # "int" THEN [ok |-> FALSE, err |-> "ValueError", n |-> 0]
    ELSE [ok |-> TRUE, err |-> "", n |-> t[i + 1].n]

\* int(t[i]) for the 0-based index i: the value, or the exception raised
IntAt(t, i) ==
    IF i + 1 > Len(t) THEN [ok |-> FALSE, err |-> "IndexError", n |-> 0]
    ELSE IF t[i + 1].k # "int" THEN [ok |-> FALSE, err |-> "ValueError", n |-> 0]
    ELSE [ok |-> TRUE, err |-> "", n |-> t[i + 1].n]

\* ------------------------------------------------------------------ arrays
\* The quantities of the two packages, in file order.
EvtQ == <<"surf", "evtr", "exdp", "ievt">>
RchQ == <<"rech", "irch">>
AllQ == {"surf", "evtr", "exdp", "ievt", "rech", "irch"}
DType(q) == IF q \in {"ievt", "irch"} THEN "i" ELSE "f"

\* The empty list [] that current_<q> starts as; a loaded array is a fresh
\* object, told apart by id.
EmptyList == [id |-> 0, d |-> "none", v |-> 0]
IsUnset(a) == a.d = "none"

\* a dict with key k set to v
DictPut(d, k, v) == [x \in (DOMAIN d) \cup {k} |-> IF x = k THEN v ELSE d[x]]
EmptyDict == <<>>

\* ------------------------------------------------------------------ state
VARIABLES
    pc,             \* where the running call stands
    pkg,            \* the package whose load / write_file runs: "EVT" or "RCH"
    f,              \* the lines of the file write_file produced
    sealed,         \* the rest of the file is fixed: f's lines, or nothing after the end
    pos,            \* number of lines the open stream has handed out
    fh,             \* the stream of the call: "none", "open" or "closed"
    line,           \* the local variable line
    mnper,          \* the model's number of stress periods (its geometry)
    verbose,        \* model.verbose
    stdout,         \* number of messages written to standard output
    packages,       \* model.packagelist, by package type
    output_files,   \* units registered through model.add_output_file
    pop_key_list,   \* units registered through model.add_pop_key_list
    nperArg,        \* the argument nper of load
    ext_unit_dict,  \* the argument ext_unit_dict of load: None or "dict"
    npar,           \* local npar
    pak_parms,      \* local pak_parms: None or the parameter table
    nevtop,         \* ModflowEvt.load local nevtop
    ipakcb,         \* ModflowEvt.load local ipakcb
    nrchop,         \* ModflowRch.load local nrchop
    irchcb,         \* ModflowRch.load local irchcb
    nper,           \* local nper
    shape,          \* whether the locals nrow, ncol are bound
    iper,           \* loop variable of the stress period loop
    inq,            \* the control codes insurf, inevtr, inexdp, inievt / inrech, inirch
    current,        \* current_surf, current_evtr, ... : the array last read
    tl,             \* the dicts surf, evtr, exdp, ievt / the lists rech, irch
    parm_dict,      \* local parm_dict
    ipar,           \* loop variable of the parameter name loop
    nid,            \* number of array objects created so far
    kper,           \* loop variable n of write_file
    orig,           \* the package object write_file wrote, or None
    given,          \* the arguments of the ModflowMnw1 / ModflowLmt constructor call
    pak,            \* the package object made by the constructor, or None
    err             \* the exception that ended the call, or None

streamVars == <<f, sealed, pos, fh, line>>
modelVars == <<mnper, verbose, packages, output_files, pop_key_list>>
argVars == <<nperArg, ext_unit_dict>>
hdrVars == <<npar, pak_parms, nevtop, ipakcb, nrchop, irchcb, nper, shape>>
loopVars == <<iper, inq, current, tl, parm_dict, ipar, nid>>
writeVars == <<kper, orig, given>>
vars == <<pc, pkg, streamVars, modelVars, argVars, hdrVars, loopVars, writeVars, pak, err,
          stdout>>

\* An integer local that is not bound yet holds 0 here; the code never reads
\* one before binding it, except nrow and ncol, whose binding shape records.
Unbound == "unbound"
Bound == "bound"

\* An optional integer argument: None, or the integer.
NoInt == <<>>
SomeInt(n) == <<n>>

\* No package object.
NoPak == [made |-> FALSE, ftype |-> None, nop |-> 0, cb |-> 0,
          arrays |-> [q \in AllQ |-> EmptyDict]]

\* No constructor arguments kept.
NoArgs == [ftype |-> None]

\* ------------------------------------------------------------------ input files
Codes == {-1, 1}
\* inevtr also counts parameter names: 2 names
EvtrCodes == {-1, 1, 2}

\* Parameter and instance names: "et", "ET", "abcdefghijk", "abcdefghijL", "I1", "i2"
NameEt == <<101, 116>>
NameET == <<69, 84>>
NameLongK == <<97, 98, 99, 100, 101, 102, 103, 104, 105, 106, 107>>
NameLongL == <<97, 98, 99, 100, 101, 102, 103, 104, 105, 106, 76>>
InstI1 == <<73, 49>>
InstI2 == <<105, 50>>

\* The lines a hand-made file is made of.
Blank == <<>>
Comment == <<StrTok(Hash)>>
EvtHeaderLines == {<<IntTok(o), IntTok(c)>> : o \in {2, 3}, c \in {0, 5}}
                  \cup {<<IntTok(3)>>, <<IntTok(0), IntTok(0)>>}
ParameterLines == {<<StrTok(WPARAMETER), IntTok(n)>> : n \in {0, 1}}
EvtControl(a, b, c, d) == <<IntTok(a), IntTok(b), IntTok(c), IntTok(d), StrTok(Hash)>>
EvtControlLines ==
    {EvtControl(a, b, c, d) : a \in Codes, b \in EvtrCodes, c \in Codes, d \in Codes}
    \cup {<<IntTok(a), IntTok(b), IntTok(c), StrTok(Hash)>> : a \in Codes, b \in Codes, c \in Codes}
    \cup {<<IntTok(1), IntTok(1)>>}
ArrayInt == <<StrTok(WConstant), IntTok(1)>>
ArrayFloat == <<StrTok(WConstant), FloatTok(1500)>>
ArrayLines == {ArrayInt, ArrayFloat}
NameLines == {<<StrTok(NameEt)>>, <<StrTok(NameET), StrTok(InstI1)>>,
              <<StrTok(NameEt), StrTok(InstI2)>>, <<StrTok(NameLongK)>>,
              <<StrTok(NameLongL)>>}
ParDefLines == {<<StrTok(NameET), StrTok(WEVT), StrTok(InstI1)>>,
                <<StrTok(NameLongK), StrTok(WEVT)>>}

\* What a hand-made EVT file may hold where the loader reads: the lines that
\* belong there and lines of the other kinds.
EvtHeadingSite == {Comment, Blank} \cup EvtHeaderLines \cup ParameterLines
EvtDataset2Site == {Comment, Blank} \cup EvtHeaderLines
ParDefSite == {Blank, EvtControl(1, 1, 1, 1)} \cup ParDefLines
EvtControlSite == {Blank, ArrayInt, <<StrTok(NameEt)>>} \cup EvtControlLines
EvtArraySite == {Blank, EvtControl(1, 1, 1, 1), EvtControl(-1, -1, -1, -1)} \cup ArrayLines
NameSite == {Blank, EvtControl(1, 1, 1, 1), ArrayFloat} \cup NameLines

\* The same for a hand-made RCH file.
RchHeaderLines == {<<IntTok(o), IntTok(c)>> : o \in {2, 3}, c \in {0, 5}}
                  \cup {<<IntTok(3)>>, <<IntTok(2), StrTok(NameEt)>>}
RchControl(a, b) == <<IntTok(a), IntTok(b), StrTok(Hash)>>
RchControlLines == {RchControl(a, b) : a \in Codes, b \in Codes}
                   \cup {<<IntTok(a), StrTok(Hash)>> : a \in Codes}
                   \cup {<<IntTok(a)>> : a \in Codes}
RchHeadingSite == {Comment, Blank} \cup RchHeaderLines \cup ParameterLines
RchDataset2Site == {Comment, Blank} \cup RchHeaderLines
RchControlSite == {Blank, ArrayInt} \cup RchControlLines
RchArraySite == {Blank, RchControl(1, 1), RchControl(-1, -1)} \cup ArrayLines

\* f.readline(): the next line of a file write_file produced (f holds it), any
\* line of site for a file made by hand, '' at the end of either.
ReadLine(site) ==
    IF sealed THEN {IF pos < Len(f) THEN Line(f[pos + 1]) ELSE EOF}
    ELSE IF pos >= MaxLines THEN {EOF}
    ELSE {EOF} \cup {Line(t) : t \in site}

Consume(l) ==
    /\ line' = l
    /\ pos' = IF l.eof THEN pos ELSE pos + 1
    /\ sealed' = (sealed \/ l.eof)
    /\ UNCHANGED <<f, fh>>

Fail(kind) == pc' = "error" /\ err' = kind

\* if flag: print(...) where cond says the statement is reached: one message
\* more on standard output.
Printed(flag, cond) == IF flag /\ cond THEN 1 ELSE 0
Say(flag, cond) == stdout' = stdout + Printed(flag, cond)

\* ------------------------------------------------------------------ Init
Init ==
    /\ pc = "idle"
    /\ pkg = None
    /\ f = <<>>
    /\ sealed = FALSE
    /\ pos = 0
    /\ fh = "none"
    /\ line = EOF
    /\ mnper \in 0..MaxPer
    /\ verbose \in BOOLEAN
    /\ stdout = 0
    /\ packages = <<>>
    /\ output_files = {}
    /\ pop_key_list = {}
    /\ nperArg = NoInt
    /\ ext_unit_dict = None
    /\ npar = 0
    /\ pak_parms = EmptyDict
    /\ nevtop = 0
    /\ ipakcb = 0
    /\ nrchop = 0
    /\ irchcb = 0
    /\ nper = 0
    /\ shape = Unbound
    /\ iper = 0
    /\ inq = [q \in AllQ |-> 0]
    /\ current = [q \in AllQ |-> EmptyList]
    /\ tl = [q \in AllQ |-> EmptyDict]
    /\ parm_dict = EmptyDict
    /\ ipar = 0
    /\ nid = 0
    /\ kper = 0
    /\ orig = NoPak
    /\ given = NoArgs
    /\ pak = NoPak
    /\ err = None

\* The model a load is given: a new one, of the same geometry, with no
\* package and no registered unit.
FreshModel == packages' = <<>> /\ output_files' = {} /\ pop_key_list' = {}

\* ------------------------------------------------------------------ ModflowEvt.load
\* load(f, model, nper, ext_unit_dict) called with a file name: the stream is opened.
EvtLoadCallCore(v) ==
    /\ pc = "idle" \/ (pc = "written" /\ pkg = "EVT")
    /\ pkg' = "EVT"
    /\ \E n \in {NoInt, SomeInt(mnper)}, e \in {None, "dict"} : nperArg' = n /\ ext_unit_dict' = e
    /\ fh' = "open"
    /\ pos' = 0
    /\ pc' = "heading"
    /\ FreshModel
    /\ pak' = NoPak
    /\ UNCHANGED <<f, sealed, line, mnper, verbose, hdrVars, loopVars, writeVars, err>>

\* if model.verbose: sys.stdout.write('loading evt package file...')
EvtLoadCall ==
    /\ EvtLoadCallCore(verbose)
    /\ Say(verbose, TRUE)

\* EvtLoadHeading that tests the line before it looks at line[0]
\* (if line and line[0] != '#': break): at the end of the stream it reads on.
EvtLoadHeadingReadsOn ==
    /\ pc = "heading" /\ pkg = "EVT"
    /\ \E l \in ReadLine(EvtHeadingSite) :
        /\ Consume(l)
        /\ IF l.eof \/ FirstCharIsHash(l) THEN pc' = pc /\ err' = err
           ELSE pc' = "parameter" /\ err' = err
    /\ UNCHANGED <<pkg, modelVars, argVars, hdrVars, loopVars, writeVars, pak>>
    /\ UNCHANGED stdout

\* Dataset 0: while True: line = f.readline(); if line[0] != '#': break
EvtLoadHeading ==
    /\ pc = "heading" /\ pkg = "EVT"
    /\ \E l \in ReadLine(EvtHeadingSite) :
        /\ Consume(l)
        /\ IF l.eof THEN Fail("IndexError")
           ELSE IF FirstCharIsHash(l) THEN pc' = pc /\ err' = err
           ELSE pc' = "parameter" /\ err' = err
    /\ UNCHANGED <<pkg, modelVars, argVars, hdrVars, loopVars, writeVars, pak>>
    /\ UNCHANGED stdout

\* EvtLoadParameterCore with the readline after the PARAMETER line moved under
\* "if model.verbose:".
EvtLoadParameterChatty(v) ==
    /\ pc = "parameter" /\ pkg = "EVT"
    /\ IF MentionsParameter(line)
       THEN LET n == IntAt(line.toks, 1) IN
            IF ~n.ok THEN Fail(n.err) /\ UNCHANGED <<streamVars, npar>>
            ELSE /\ npar' = n.n
                 /\ IF v THEN \E l \in ReadLine(EvtDataset2Site) : Consume(l)
                    ELSE UNCHANGED streamVars
                 /\ pc' = "dataset2" /\ err' = err
       ELSE pc' = "dataset2" /\ err' = err /\ UNCHANGED <<streamVars, npar>>
    /\ UNCHANGED <<pkg, modelVars, argVars, pak_parms, nevtop, ipakcb, nrchop, irchcb,
                   nper, shape, loopVars, writeVars, pak>>

\* "parameter" in line.lower(): npar = int(raw[1]); line = f.readline()
EvtLoadParameterCore(v) ==
    /\ pc = "parameter" /\ pkg = "EVT"
    /\ IF MentionsParameter(line)
       THEN LET n == IntAt(line.toks, 1) IN
            IF ~n.ok THEN Fail(n.err) /\ UNCHANGED <<streamVars, npar>>
            ELSE /\ npar' = n.n
                 /\ \E l \in ReadLine(EvtDataset2Site) : Consume(l)
                 /\ pc' = "dataset2" /\ err' = err
       ELSE pc' = "dataset2" /\ err' = err /\ UNCHANGED <<streamVars, npar>>
    /\ UNCHANGED <<pkg, modelVars, argVars, pak_parms, nevtop, ipakcb, nrchop, irchcb,
                   nper, shape, loopVars, writeVars, pak>>

\* if npar > 0: if model.verbose: print('  Parameters detected. ...')
EvtLoadParameter ==
    /\ EvtLoadParameterCore(verbose)
    /\ Say(verbose, MentionsParameter(line) /\ IntAt(line.toks, 1).ok /\ IntAt(line.toks, 1).n > 0)

\* Dataset 2: t = line.strip().split(); nevtop = int(t[0]); ipakcb = int(t[1])
EvtLoadDataset2 ==
    /\ pc = "dataset2" /\ pkg = "EVT"
    /\ LET a == IntAt(line.toks, 0)
           b == IntAt(line.toks, 1) IN
       IF ~a.ok THEN Fail(a.err) /\ UNCHANGED <<nevtop, ipakcb>>
       ELSE IF ~b.ok THEN Fail(b.err) /\ UNCHANGED <<nevtop, ipakcb>>
       ELSE /\ nevtop' = a.n
            /\ ipakcb' = b.n
            /\ pc' = "parms" /\ err' = err
    /\ UNCHANGED <<pkg, streamVars, modelVars, argVars, npar, pak_parms, nrchop, irchcb,
                   nper, shape, loopVars, writeVars, pak>>
    /\ UNCHANGED stdout

\* if nper is None: nrow, ncol, nlay, nper = model.get_nrow_ncol_nlay_nper()
\* With nper given, nrow and ncol stay unbound.
GetNper ==
    /\ nper' = IF nperArg = NoInt THEN mnper ELSE nperArg[1]
    /\ shape' = IF nperArg = NoInt THEN Bound ELSE shape

\* ------------------------------------------------------------------ parameters
\* The name a parameter is known by: lowercased, first 10 characters
\* (c = t[0].lower(); if len(c) > 10: c = c[0:10]).
ParName(s) == LET c == Lower(s) IN IF Len(c) > 10 THEN SubSeq(c, 1, 10) ELSE c

\* str(t) of a numeric token (its digits), the word itself otherwise
RECURSIVE Digits(_)
Digits(n) == IF n < 10 THEN <<48 + n>> ELSE Digits(n \div 10) \o <<48 + (n % 10)>>
TokStr(t) ==
    IF t.k = "str" THEN t.s
    ELSE IF t.k = "int" THEN (IF t.n < 0 THEN <<45>> \o Digits(-t.n) ELSE Digits(t.n))
    ELSE (IF t.n < 0 THEN <<45>> ELSE <<>>)
         \o Digits((IF t.n < 0 THEN -t.n ELSE t.n) \div 1000) \o <<46>>
         \o Digits((IF t.n < 0 THEN -t.n ELSE t.n) % 1000)

\* "static"
WStatic == <<115, 116, 97, 116, 105, 99>>

\* mfparbc.loadarray reads one parameter definition, "PARNAM PARTYP instances":
\* its name, its type (a word) and its instance names; every parameter has the
\* instance 'static'.
ParDef(t) ==
    IF Len(t) < 2 \/ \E i \in 1..Len(t) : t[i].k # "str"
    THEN [ok |-> FALSE, err |-> "ParameterTableError", name |-> <<>>, inst |-> {}]
    ELSE [ok |-> TRUE, err |-> "", name |-> ParName(t[1].s),
          inst |-> {WStatic} \cup {Lower(t[i].s) : i \in 3..Len(t)}]

\* Dataset 3 and 4: if npar > 0: pak_parms = mfparbc.loadarray(f, npar, verbose),
\* one definition for each step of this action; then
\* if nper is None: nrow, ncol, nlay, nper = model.get_nrow_ncol_nlay_nper()
EvtLoadParmsCore(v) ==
    /\ pc = "parms" /\ pkg = "EVT"
    /\ IF npar > 0 /\ ipar < npar
       THEN /\ \E l \in ReadLine(ParDefSite) :
                /\ Consume(l)
                /\ LET d == ParDef(l.toks) IN
                   IF ~d.ok THEN Fail(d.err) /\ UNCHANGED <<pak_parms, ipar>>
                   ELSE /\ pak_parms' = DictPut(pak_parms, d.name, d.inst)
                        /\ ipar' = ipar + 1
                        /\ pc' = pc /\ err' = err
            /\ UNCHANGED <<nper, shape, iper>>
       ELSE /\ GetNper
            /\ iper' = 0
            /\ ipar' = 0
            /\ pc' = "loop" /\ err' = err
            /\ UNCHANGED <<streamVars, pak_parms>>
    /\ UNCHANGED <<pkg, modelVars, argVars, npar, nevtop, ipakcb, nrchop, irchcb,
                   inq, current, tl, parm_dict, nid, writeVars, pak>>

\* model.verbose is handed to mfparbc.loadarray; load itself prints nothing here
EvtLoadParms ==
    /\ EvtLoadParmsCore(verbose)
    /\ Say(verbose, FALSE)

\* ------------------------------------------------------------------ array blocks
\* The value a numeric literal denotes, in thousandths.
Content(t) == IF t.k = "int" THEN 1000 * t.n ELSE t.n

\* Util2d.load(f, model, (nrow, ncol), dtype, name, ext_unit_dict) on the line it
\* reads: the array's content, or the decode error. An integer array does not
\* parse from a non-integer literal.
U2dLoad(l, dtype) ==
    IF l.eof \/ Len(l.toks) < 2 \/ l.toks[1].k # "str" \/ Lower(l.toks[1].s) # WConstant
       \/ l.toks[2].k = "str"
    THEN [ok |-> FALSE, err |-> "ShapeMismatch", v |-> 0]
    ELSE IF dtype = "i" /\ l.toks[2].k # "int"
    THEN [ok |-> FALSE, err |-> "TypeMismatch", v |-> 0]
    ELSE [ok |-> TRUE, err |-> "", v |-> Content(l.toks[2])]

\* <q>[iper] = a for the dicts of ModflowEvt.load, <q>.append(a) for the lists
\* of ModflowRch.load
Store(q, d, k, a) == IF q \in {"rech", "irch"} THEN Append(d, a) ELSE DictPut(d, k, a)

\* LoadQ with a reuse that stores a copy of the current array instead of the
\* array itself.
LoadQCopy(q, next, site) ==
    IF inq[q] >= 0
    THEN IF shape = Unbound
         THEN Fail("NameError") /\ UNCHANGED <<streamVars, current, tl, nid>>
         ELSE \E l \in ReadLine(site) :
                /\ Consume(l)
                /\ LET r == U2dLoad(l, DType(q)) IN
                   IF ~r.ok THEN Fail(r.err) /\ UNCHANGED <<current, tl, nid>>
                   ELSE LET t == [id |-> nid + 1, d |-> DType(q), v |-> r.v] IN
                        /\ nid' = nid + 1
                        /\ current' = [current EXCEPT ![q] = t]
                        /\ tl' = [tl EXCEPT ![q] = Store(q, tl[q], iper, t)]
                        /\ pc' = next /\ err' = err
    ELSE /\ tl' = [tl EXCEPT ![q] = Store(q, tl[q], iper, [current[q] EXCEPT !.id = nid + 1])]
         /\ nid' = nid + 1
         /\ pc' = next /\ err' = err
         /\ UNCHANGED <<streamVars, current>>

\* LoadQ that assigns the array it read to the current array of every quantity.
LoadQClobber(q, next, site) ==
    IF inq[q] >= 0
    THEN IF shape = Unbound
         THEN Fail("NameError") /\ UNCHANGED <<streamVars, current, tl, nid>>
         ELSE \E l \in ReadLine(site) :
                /\ Consume(l)
                /\ LET r == U2dLoad(l, DType(q)) IN
                   IF ~r.ok THEN Fail(r.err) /\ UNCHANGED <<current, tl, nid>>
                   ELSE LET t == [id |-> nid + 1, d |-> DType(q), v |-> r.v] IN
                        /\ nid' = nid + 1
                        /\ current' = [x \in DOMAIN current |-> t]
                        /\ tl' = [tl EXCEPT ![q] = Store(q, tl[q], iper, t)]
                        /\ pc' = next /\ err' = err
    ELSE /\ tl' = [tl EXCEPT ![q] = Store(q, tl[q], iper, current[q])]
         /\ pc' = next /\ err' = err
         /\ UNCHANGED <<streamVars, current, nid>>

\* LoadQ that stores nothing for a step whose code is negative.
LoadQSkipReuse(q, next, site) ==
    IF inq[q] >= 0
    THEN IF shape = Unbound
         THEN Fail("NameError") /\ UNCHANGED <<streamVars, current, tl, nid>>
         ELSE \E l \in ReadLine(site) :
                /\ Consume(l)
                /\ LET r == U2dLoad(l, DType(q)) IN
                   IF ~r.ok THEN Fail(r.err) /\ UNCHANGED <<current, tl, nid>>
                   ELSE LET t == [id |-> nid + 1, d |-> DType(q), v |-> r.v] IN
                        /\ nid' = nid + 1
                        /\ current' = [current EXCEPT ![q] = t]
                        /\ tl' = [tl EXCEPT ![q] = Store(q, tl[q], iper, t)]
                        /\ pc' = next /\ err' = err
    ELSE /\ pc' = next /\ err' = err
         /\ UNCHANGED <<streamVars, current, tl, nid>>

\* One quantity of one stress period, read as a raw array:
\*   if in<q> >= 0: t = Util2d.load(f, model, (nrow, ncol), ...); current_<q> = t
\*   <q>[iper] = current_<q>
\* The arguments (nrow, ncol) are evaluated before the call: NameError when unbound.
LoadQ(q, next, site) ==
    IF inq[q] >= 0
    THEN IF shape = Unbound
         THEN Fail("NameError") /\ UNCHANGED <<streamVars, current, tl, nid>>
         ELSE \E l \in ReadLine(site) :
                /\ Consume(l)
                /\ LET r == U2dLoad(l, DType(q)) IN
                   IF ~r.ok THEN Fail(r.err) /\ UNCHANGED <<current, tl, nid>>
                   ELSE LET t == [id |-> nid + 1, d |-> DType(q), v |-> r.v] IN
                        /\ nid' = nid + 1
                        /\ current' = [current EXCEPT ![q] = t]
                        /\ tl' = [tl EXCEPT ![q] = Store(q, tl[q], iper, t)]
                        /\ pc' = next /\ err' = err
    ELSE /\ tl' = [tl EXCEPT ![q] = Store(q, tl[q], iper, current[q])]
         /\ pc' = next /\ err' = err
         /\ UNCHANGED <<streamVars, current, nid>>

\* EvtLoadControl that leaves the loop at the end of the stream (if not line:
\* break) instead of raising.
EvtLoadControlStopAtEof ==
    /\ pc = "loop" /\ pkg = "EVT" /\ iper < nper
    /\ \E l \in ReadLine(EvtControlSite) :
        /\ Consume(l)
        /\ LET a == IntAt(l.toks, 0)
               b == IntAt(l.toks, 1)
               c == IntAt(l.toks, 2)
               d == IntAt(l.toks, 3) IN
           IF l.eof THEN pc' = "loop" /\ err' = err /\ iper' = nper /\ UNCHANGED inq
           ELSE IF ~a.ok THEN Fail(a.err) /\ UNCHANGED <<inq, iper>>
           ELSE IF ~b.ok THEN Fail(b.err) /\ UNCHANGED <<inq, iper>>
           ELSE IF ~c.ok THEN Fail(c.err) /\ UNCHANGED <<inq, iper>>
           ELSE IF nevtop = 2 /\ ~d.ok THEN Fail(d.err) /\ UNCHANGED <<inq, iper>>
           ELSE /\ inq' = [inq EXCEPT !["surf"] = a.n, !["evtr"] = b.n, !["exdp"] = c.n,
                                      !["ievt"] = IF nevtop = 2 THEN d.n ELSE @]
                /\ pc' = "surf" /\ err' = err /\ iper' = iper
    /\ UNCHANGED <<pkg, modelVars, argVars, hdrVars, current, tl, parm_dict, ipar,
                   nid, writeVars, pak>>
    /\ UNCHANGED stdout

\* for iper in range(nper): line = f.readline(); t = line.strip().split()
\* insurf = int(t[0]); inevtr = int(t[1]); inexdp = int(t[2])
\* if (nevtop == 2): inievt = int(t[3])
EvtLoadControl ==
    /\ pc = "loop" /\ pkg = "EVT" /\ iper < nper
    /\ \E l \in ReadLine(EvtControlSite) :
        /\ Consume(l)
        /\ LET a == IntAt(l.toks, 0)
               b == IntAt(l.toks, 1)
               c == IntAt(l.toks, 2)
               d == IntAt(l.toks, 3) IN
           IF ~a.ok THEN Fail(a.err) /\ UNCHANGED inq
           ELSE IF ~b.ok THEN Fail(b.err) /\ UNCHANGED inq
           ELSE IF ~c.ok THEN Fail(c.err) /\ UNCHANGED inq
           ELSE IF nevtop = 2 /\ ~d.ok THEN Fail(d.err) /\ UNCHANGED inq
           ELSE /\ inq' = [inq EXCEPT !["surf"] = a.n, !["evtr"] = b.n, !["exdp"] = c.n,
                                      !["ievt"] = IF nevtop = 2 THEN d.n ELSE @]
                /\ pc' = "surf" /\ err' = err
    /\ UNCHANGED <<pkg, modelVars, argVars, hdrVars, iper, current, tl, parm_dict, ipar,
                   nid, writeVars, pak>>
    /\ UNCHANGED stdout

\* EvtLoadSurfCore that goes on with the exdp block, leaving evtr out.
EvtLoadSurfSkipsEvtr(v) ==
    /\ pc = "surf" /\ pkg = "EVT"
    /\ LoadQ("surf", "exdp", EvtArraySite)
    /\ UNCHANGED <<pkg, modelVars, argVars, hdrVars, iper, inq, parm_dict, ipar, writeVars, pak>>

EvtLoadSurfCore(v) ==
    /\ pc = "surf" /\ pkg = "EVT"
    /\ LoadQ("surf", "evtr", EvtArraySite)
    /\ UNCHANGED <<pkg, modelVars, argVars, hdrVars, iper, inq, parm_dict, ipar, writeVars, pak>>

\* if insurf >= 0: if model.verbose: print('   loading surf stress period ...')
EvtLoadSurf ==
    /\ EvtLoadSurfCore(verbose)
    /\ Say(verbose, inq["surf"] >= 0)

\* if inevtr >= 0: if npar == 0: t = Util2d.load(...) else: parm_dict = {} ...
\* evtr[iper] = current_evtr
EvtLoadEvtrCore(v) ==
    /\ pc = "evtr" /\ pkg = "EVT"
    /\ IF inq["evtr"] >= 0 /\ npar # 0
       THEN /\ parm_dict' = EmptyDict
            /\ ipar' = 0
            /\ pc' = "parname" /\ err' = err
            /\ UNCHANGED <<streamVars, current, tl, nid>>
       ELSE LoadQ("evtr", "exdp", EvtArraySite) /\ UNCHANGED <<parm_dict, ipar>>
    /\ UNCHANGED <<pkg, modelVars, argVars, hdrVars, iper, inq, writeVars, pak>>

\* if inevtr >= 0: if npar == 0: if model.verbose: print(...)
EvtLoadEvtr ==
    /\ EvtLoadEvtrCore(verbose)
    /\ Say(verbose, inq["evtr"] >= 0 /\ npar = 0)

\* InstanceName that takes the instance the line names without looking it up.
InstanceNameUnchecked(t, pname, parms) ==
    IF Len(t) < 2 THEN WStatic ELSE Lower(TokStr(t[2]))

\* The instance a parameter-name line selects:
\*   try: c = t[1].lower(); instance_dict = pak_parms.bc_parms[pname][1]
\*        iname = c if c in instance_dict else 'static'
\*   except: iname = 'static'
InstanceName(t, pname, parms) ==
    IF Len(t) < 2 THEN WStatic
    ELSE IF pname \notin DOMAIN parms THEN WStatic
    ELSE IF Lower(TokStr(t[2])) \in parms[pname] THEN Lower(TokStr(t[2]))
    ELSE WStatic

\* for ipar in range(inevtr): line = f.readline(); t = line.strip().split()
\* c = t[0].lower(); pname = c[0:10]; ...; parm_dict[pname] = iname
EvtLoadParName ==
    /\ pc = "parname" /\ pkg = "EVT" /\ ipar < inq["evtr"]
    /\ \E l \in ReadLine(NameSite) :
        /\ Consume(l)
        /\ IF l.toks = <<>> THEN Fail("IndexError") /\ UNCHANGED <<parm_dict, ipar>>
           ELSE LET pname == ParName(TokStr(l.toks[1]))
                    iname == InstanceName(l.toks, pname, pak_parms) IN
                /\ parm_dict' = DictPut(parm_dict, pname, iname)
                /\ ipar' = ipar + 1
                /\ pc' = pc /\ err' = err
    /\ UNCHANGED <<pkg, modelVars, argVars, hdrVars, iper, inq, current, tl, nid, writeVars, pak>>
    /\ UNCHANGED stdout

\* mfparbc.parameter_bcfill(model, (nrow, ncol), parm_dict, pak_parms): every
\* named parameter is resolved in the table and the contributions are summed.
ParameterBcFill(pd, parms) ==
    IF \E p \in DOMAIN pd : p \notin DOMAIN parms
    THEN [ok |-> FALSE, err |-> "UnknownParameter", v |-> 0]
    ELSE [ok |-> TRUE, err |-> "", v |-> Cardinality(DOMAIN pd)]

\* t = mfparbc.parameter_bcfill(...); current_evtr = t; evtr[iper] = current_evtr
EvtLoadParFill ==
    /\ pc = "parname" /\ pkg = "EVT" /\ ipar >= inq["evtr"]
    /\ IF shape = Unbound THEN Fail("NameError") /\ UNCHANGED <<current, tl, nid>>
       ELSE LET r == ParameterBcFill(parm_dict, pak_parms) IN
            IF ~r.ok THEN Fail(r.err) /\ UNCHANGED <<current, tl, nid>>
            ELSE LET t == [id |-> nid + 1, d |-> "f", v |-> r.v] IN
                 /\ nid' = nid + 1
                 /\ current' = [current EXCEPT !["evtr"] = t]
                 /\ tl' = [tl EXCEPT !["evtr"] = DictPut(tl["evtr"], iper, t)]
                 /\ pc' = "exdp" /\ err' = err
    /\ UNCHANGED <<pkg, streamVars, modelVars, argVars, hdrVars, iper, inq, parm_dict,
                   ipar, writeVars, pak>>
    /\ UNCHANGED stdout

EvtLoadExdpCore(v) ==
    /\ pc = "exdp" /\ pkg = "EVT"
    /\ LoadQ("exdp", "ievt", EvtArraySite)
    /\ UNCHANGED <<pkg, modelVars, argVars, hdrVars, iper, inq, parm_dict, ipar, writeVars, pak>>

\* if inexdp >= 0: if model.verbose: print(...)
EvtLoadExdp ==
    /\ EvtLoadExdpCore(verbose)
    /\ Say(verbose, inq["exdp"] >= 0)

\* EvtLoadIevtCore without the test of nevtop: the code of ievt alone decides.
EvtLoadIevtUngated(v) ==
    /\ pc = "ievt" /\ pkg = "EVT"
    /\ LoadQ("ievt", "loop", EvtArraySite)
    /\ iper' = IF pc' = "loop" THEN iper + 1 ELSE iper
    /\ UNCHANGED <<pkg, modelVars, argVars, hdrVars, inq, parm_dict, ipar, writeVars, pak>>

\* if nevtop == 2: if inievt >= 0: ... ; ievt[iper] = current_ievt
\* and the loop goes to the next stress period.
EvtLoadIevtCore(v) ==
    /\ pc = "ievt" /\ pkg = "EVT"
    /\ IF nevtop = 2
       THEN LoadQ("ievt", "loop", EvtArraySite)
       ELSE pc' = "loop" /\ err' = err /\ UNCHANGED <<streamVars, current, tl, nid>>
    /\ iper' = IF pc' = "loop" THEN iper + 1 ELSE iper
    /\ UNCHANGED <<pkg, modelVars, argVars, hdrVars, inq, parm_dict, ipar, writeVars, pak>>

\* if nevtop == 2: if inievt >= 0: if model.verbose: print(...)
EvtLoadIevt ==
    /\ EvtLoadIevtCore(verbose)
    /\ Say(verbose, nevtop = 2 /\ inq["ievt"] >= 0)

\* ------------------------------------------------------------------ ModflowEvt.__init__
\* The defaults of the constructor, in thousandths:
\* surf=0., evtr=1e-3, exdp=1., ievt=1
EvtDefault(q) ==
    [id |-> -1, d |-> DType(q),
     v |-> IF q = "surf" THEN 0 ELSE IF q = "evtr" THEN 1 ELSE 1000]

\* Transient2d(model, (nrow, ncol), dtype, value, name): a scalar holds for all
\* stress periods from 0 on; a dict entry that is not an array of the grid's
\* shape is refused.
Transient2dOk(value) == \A k \in DOMAIN value : ~IsUnset(value[k])

\* ModflowEvt(model, nevtop, ipakcb, surf, evtr, exdp, ievt): a holds the
\* arguments, an empty dict standing for an argument that is not passed.
EvtInit(a, next) ==
    /\ output_files' = IF a.ipakcb # NoInt THEN output_files \cup {a.ipakcb[1]}
                       ELSE output_files
    /\ IF \E i \in 1..Len(EvtQ) : ~Transient2dOk(a.arr[EvtQ[i]])
       THEN Fail("ShapeMismatch") /\ UNCHANGED <<packages, writeVars, pak>>
       ELSE /\ pak' = [made |-> TRUE, ftype |-> "EVT", nop |-> a.nevtop,
                       cb |-> IF a.ipakcb # NoInt THEN a.ipakcb[1] ELSE 0,
                       arrays |-> [q \in AllQ |->
                                    IF q \in {"rech", "irch"} THEN EmptyDict
                                    ELSE IF a.arr[q] = EmptyDict THEN (0 :> EvtDefault(q))
                                    ELSE a.arr[q]]]
            /\ packages' = Append(packages, "EVT")
            /\ pc' = next /\ err' = err

\* After the loop: args = {}; if ievt: args["ievt"] = ievt; if nevtop: ... ;
\* if ext_unit_dict is not None: ...; if ipakcb > 0: model.add_pop_key_list(ipakcb)
\* evt = ModflowEvt(model, **args); return evt
EvtLoadCreate ==
    /\ pc = "loop" /\ pkg = "EVT" /\ iper >= nper
    /\ pop_key_list' = IF ext_unit_dict # None /\ ipakcb > 0
                       THEN pop_key_list \cup {ipakcb} ELSE pop_key_list
    /\ EvtInit([nevtop |-> IF nevtop # 0 THEN nevtop ELSE 3,
                ipakcb |-> SomeInt(ipakcb),
                arr |-> tl], "done")
    /\ UNCHANGED <<pkg, streamVars, mnper, verbose, argVars, hdrVars, loopVars, writeVars>>
    /\ UNCHANGED stdout

\* ------------------------------------------------------------------ ModflowRch.load
\* load(f, model, nper, ext_unit_dict) called with a file name: the stream is opened.
RchLoadCall ==
    /\ pc = "idle" \/ (pc = "written" /\ pkg = "RCH")
    /\ pkg' = "RCH"
    /\ \E n \in {NoInt, SomeInt(mnper)}, e \in {None, "dict"} : nperArg' = n /\ ext_unit_dict' = e
    /\ fh' = "open"
    /\ pos' = 0
    /\ pc' = "heading"
    /\ FreshModel
    /\ pak' = NoPak
    /\ UNCHANGED <<f, sealed, line, mnper, verbose, hdrVars, loopVars, writeVars, err>>
    /\ UNCHANGED stdout

\* dataset 0: while True: line = f.readline(); if line[0] != '#': break
RchLoadHeading ==
    /\ pc = "heading" /\ pkg = "RCH"
    /\ \E l \in ReadLine(RchHeadingSite) :
        /\ Consume(l)
        /\ IF l.eof THEN Fail("IndexError")
           ELSE IF FirstCharIsHash(l) THEN pc' = pc /\ err' = err
           ELSE pc' = "parameter" /\ err' = err
    /\ UNCHANGED <<pkg, modelVars, argVars, hdrVars, loopVars, writeVars, pak>>
    /\ UNCHANGED stdout

\* if "parameter" in line.lower(): assert int(raw[1]) == 0; line = f.readline()
RchLoadParameter ==
    /\ pc = "parameter" /\ pkg = "RCH"
    /\ IF MentionsParameter(line)
       THEN LET n == IntAt(line.toks, 1) IN
            IF ~n.ok THEN Fail(n.err) /\ UNCHANGED streamVars
            ELSE IF n.n # 0 THEN Fail("AssertionError") /\ UNCHANGED streamVars
            ELSE /\ \E l \in ReadLine(RchDataset2Site) : Consume(l)
                 /\ pc' = "dataset2" /\ err' = err
       ELSE pc' = "dataset2" /\ err' = err /\ UNCHANGED streamVars
    /\ UNCHANGED <<pkg, modelVars, argVars, hdrVars, loopVars, writeVars, pak>>
    /\ UNCHANGED stdout

\* irchcb = 0; try: if int(t[1]) != 0: irchcb = 53; except: pass
Irchcb(t) == LET c == IntAt(t, 1) IN IF c.ok /\ c.n # 0 THEN 53 ELSE 0

\* dataset 2: t = line.strip().split(); nrchop = int(t[0]); irchcb = ...
\* if nper is None: nrow, ncol, nlay, nper = model.get_nrow_ncol_nlay_nper()
RchLoadDataset2 ==
    /\ pc = "dataset2" /\ pkg = "RCH"
    /\ LET a == IntAt(line.toks, 0) IN
       IF ~a.ok THEN Fail(a.err) /\ UNCHANGED <<nrchop, irchcb, nper, shape>>
       ELSE /\ nrchop' = a.n
            /\ irchcb' = Irchcb(line.toks)
            /\ GetNper
            /\ pc' = "loop" /\ err' = err
    /\ iper' = 0
    /\ UNCHANGED <<pkg, streamVars, modelVars, argVars, npar, pak_parms, nevtop, ipakcb,
                   inq, current, tl, parm_dict, ipar, nid, writeVars, pak>>
    /\ UNCHANGED stdout

\* for iper in xrange(nper): line = f.readline(); t = line.strip().split()
\* inrech = int(t[0]); if nrchop == 2: inirch = int(t[1])
RchLoadControl ==
    /\ pc = "loop" /\ pkg = "RCH" /\ iper < nper
    /\ \E l \in ReadLine(RchControlSite) :
        /\ Consume(l)
        /\ LET a == IntAt(l.toks, 0)
               b == IntAt(l.toks, 1) IN
           IF ~a.ok THEN Fail(a.err) /\ UNCHANGED inq
           ELSE IF nrchop = 2 /\ ~b.ok THEN Fail(b.err) /\ UNCHANGED inq
           ELSE /\ inq' = [inq EXCEPT !["rech"] = a.n,
                                      !["irch"] = IF nrchop = 2 THEN b.n ELSE @]
                /\ pc' = "rech" /\ err' = err
    /\ UNCHANGED <<pkg, modelVars, argVars, hdrVars, iper, current, tl, parm_dict, ipar,
                   nid, writeVars, pak>>
    /\ UNCHANGED stdout

\* if inrech >= 0: t = util_2d.load(...); current_rech = t
\* rech.append(current_rech)
RchLoadRech ==
    /\ pc = "rech" /\ pkg = "RCH"
    /\ LoadQ("rech", "irch", RchArraySite)
    /\ UNCHANGED <<pkg, modelVars, argVars, hdrVars, iper, inq, parm_dict, ipar, writeVars, pak>>
    /\ Say(TRUE, inq["rech"] >= 0)

\* if nrchop == 2: if inirch >= 0: ...; irch.append(current_irch)
\* and the loop goes to the next stress period.
RchLoadIrch ==
    /\ pc = "irch" /\ pkg = "RCH"
    /\ IF nrchop = 2
       THEN LoadQ("irch", "loop", RchArraySite)
       ELSE pc' = "loop" /\ err' = err /\ UNCHANGED <<streamVars, current, tl, nid>>
    /\ iper' = IF pc' = "loop" THEN iper + 1 ELSE iper
    /\ UNCHANGED <<pkg, modelVars, argVars, hdrVars, inq, parm_dict, ipar, writeVars, pak>>
    /\ Say(TRUE, nrchop = 2 /\ inq["irch"] >= 0)

\* ModflowRch(model, nrchop, irchcb, rech, irch) with rech and irch lists:
\* each entry becomes a util_2d of the grid's shape, which an entry that is
\* not an array of that shape is refused as.
Util2dOk(a) == ~IsUnset(a)

RchInit(a, next) ==
    IF \E q \in {"rech", "irch"} : \E i \in 1..Len(a.arr[q]) : ~Util2dOk(a.arr[q][i])
    THEN Fail("ShapeMismatch") /\ UNCHANGED <<packages, writeVars, pak>>
    ELSE /\ pak' = [made |-> TRUE, ftype |-> "RCH", nop |-> a.nrchop, cb |-> a.irchcb,
                    arrays |-> [q \in AllQ |->
                                 IF q \in {"rech", "irch"} THEN a.arr[q] ELSE EmptyDict]]
         /\ packages' = Append(packages, "RCH")
         /\ pc' = next /\ err' = err

\* rch = ModflowRch(model, nrchop=nrchop, irchcb=irchcb, rech=rech, irch=irch)
RchLoadCreate ==
    /\ pc = "loop" /\ pkg = "RCH" /\ iper >= nper
    /\ RchInit([nrchop |-> nrchop, irchcb |-> irchcb, arr |-> tl], "done")
    /\ UNCHANGED <<pkg, streamVars, mnper, verbose, output_files, pop_key_list, argVars, hdrVars,
                   loopVars, writeVars>>
    /\ UNCHANGED stdout

\* ------------------------------------------------------------------ records to write
\* The arrays a user hands to a constructor: told apart by quantity and
\* stress period, non-integer for the float quantities.
QIndex(q) ==
    CASE q = "surf" -> 1 [] q = "evtr" -> 2 [] q = "exdp" -> 3 [] q = "ievt" -> 4
      [] q = "rech" -> 5 [] q = "irch" -> 6
UserArray(q, k) ==
    [id |-> -1, d |-> DType(q),
     v |-> 1000 * (10 * QIndex(q) + k + 2) + (IF DType(q) = "f" THEN 500 ELSE 0)]

\* A dict keyed on kper that supplies stress period 0 and any later ones.
UserDicts(q) ==
    {[k \in K \cup {0} |-> UserArray(q, k)] : K \in SUBSET (1..(mnper - 1))}

\* ModflowEvt(model, nevtop=.., ipakcb=.., surf=.., evtr=.., exdp=.., ievt=..)
\* called by the user; each array argument is left out or a dict keyed on kper.
EvtNew ==
    /\ pc = "idle"
    /\ pkg' = "EVT"
    /\ \E o \in {0, 2, 3}, c \in {NoInt, SomeInt(5)},
          a \in [{"surf"} -> {EmptyDict} \cup UserDicts("surf")],
          b \in [{"evtr"} -> {EmptyDict} \cup UserDicts("evtr")],
          e \in [{"exdp"} -> {EmptyDict} \cup UserDicts("exdp")],
          i \in [{"ievt"} -> {EmptyDict} \cup UserDicts("ievt")] :
        EvtInit([nevtop |-> o, ipakcb |-> c,
                 arr |-> [q \in AllQ |->
                           CASE q = "surf" -> a[q] [] q = "evtr" -> b[q]
                             [] q = "exdp" -> e[q] [] q = "ievt" -> i[q]
                             [] OTHER -> EmptyDict]], "built")
    /\ UNCHANGED <<streamVars, mnper, verbose, pop_key_list, argVars, hdrVars, loopVars, writeVars>>
    /\ UNCHANGED stdout

\* Transient2d.get_kper_entry(kper): the control code and the file entry of a
\* stress period: a new array where one is supplied, reuse (-1) otherwise.
GetKperEntry(tr, k) ==
    IF k \in DOMAIN tr THEN [code |-> 1, supplied |-> TRUE, a |-> tr[k]]
    ELSE [code |-> -1, supplied |-> FALSE, a |-> EmptyList]

\* The file entry of an array: one array control line holding its content,
\* written as a float or as an integer by the array's type.
FileEntry(a) ==
    <<StrTok(WConstant), IF a.d = "f" THEN FloatTok(a.v) ELSE IntTok(a.v \div 1000)>>

\* ------------------------------------------------------------------ ModflowEvt.write_file
\* f_evt = open(self.fn_path, 'w'); the heading; '{0:10d}{1:10d}\n'.format(nevtop, ipakcb)
EvtWriteOpen ==
    /\ pc = "built" /\ pkg = "EVT"
    /\ fh' = "open"
    /\ f' = << <<StrTok(Hash), StrTok(WEVT)>>, <<IntTok(pak.nop), IntTok(pak.cb)>> >>
    /\ sealed' = TRUE
    /\ kper' = 0
    /\ orig' = pak
    /\ pc' = "write"
    /\ UNCHANGED <<pkg, pos, line, modelVars, argVars, hdrVars, loopVars, given, pak, err>>
    /\ UNCHANGED stdout

\* EvtStepLines that writes the entry of ievt whenever its code is >= 0,
\* without the test of nevtop.
EvtStepLinesNoGate(p, k) ==
    LET e == [q \in {"surf", "evtr", "exdp", "ievt"} |-> GetKperEntry(p.arrays[q], k)]
        block(q) == IF e[q].code >= 0 THEN <<FileEntry(e[q].a)>> ELSE <<>>
    IN  << <<IntTok(e["surf"].code), IntTok(e["evtr"].code), IntTok(e["exdp"].code),
             IntTok(e["ievt"].code), StrTok(Hash), IntTok(k + 1)>> >>
        \o block("surf") \o block("evtr") \o block("exdp") \o block("ievt")

\* The lines of stress period k: the control line, then the entries of the
\* quantities with a code >= 0, ievt only if nevtop == 2.
EvtStepLines(p, k) ==
    LET e == [q \in {"surf", "evtr", "exdp", "ievt"} |-> GetKperEntry(p.arrays[q], k)]
        block(q) == IF e[q].code >= 0 THEN <<FileEntry(e[q].a)>> ELSE <<>>
    IN  << <<IntTok(e["surf"].code), IntTok(e["evtr"].code), IntTok(e["exdp"].code),
             IntTok(e["ievt"].code), StrTok(Hash), IntTok(k + 1)>> >>
        \o block("surf") \o block("evtr") \o block("exdp")
        \o (IF p.nop = 2 THEN block("ievt") ELSE <<>>)

\* for n in range(nper): ... one stress period
EvtWriteStep ==
    /\ pc = "write" /\ pkg = "EVT" /\ kper < mnper
    /\ f' = f \o EvtStepLines(orig, kper)
    /\ kper' = kper + 1
    /\ UNCHANGED <<pc, pkg, sealed, pos, fh, line, modelVars, argVars, hdrVars, loopVars,
                   orig, given, pak, err>>
    /\ UNCHANGED stdout

\* f_evt.close()
EvtWriteClose ==
    /\ pc = "write" /\ pkg = "EVT" /\ kper >= mnper
    /\ fh' = "closed"
    /\ pc' = "written"
    /\ UNCHANGED <<pkg, f, sealed, pos, line, modelVars, argVars, hdrVars, loopVars,
                   writeVars, pak, err>>
    /\ UNCHANGED stdout

\* ------------------------------------------------------------------ ModflowRch.__init__ by the user
\* The defaults of the constructor, in thousandths: rech=1e-3, irch=1
RchDefault(q) == [id |-> -1, d |-> DType(q), v |-> IF q = "rech" THEN 1 ELSE 1000]

\* A list of arrays, one for each of the first stress periods (possibly none).
UserLists(q) == {[i \in 1..n |-> UserArray(q, i - 1)] : n \in 0..mnper}

\* ModflowRch(model, nrchop=.., irchcb=.., rech=.., irch=..) called by the user;
\* an argument that is not a list becomes a list of one: rech = [rech].
RchNew ==
    /\ pc = "idle"
    /\ pkg' = "RCH"
    /\ \E o \in {2, 3}, c \in {0, 5},
          r \in [{"rech"} -> {<<RchDefault("rech")>>} \cup UserLists("rech")],
          i \in [{"irch"} -> {<<RchDefault("irch")>>} \cup UserLists("irch")] :
        RchInit([nrchop |-> o, irchcb |-> c,
                 arr |-> [q \in AllQ |->
                           CASE q = "rech" -> r[q] [] q = "irch" -> i[q]
                             [] OTHER -> EmptyDict]], "built")
    /\ UNCHANGED <<streamVars, mnper, verbose, output_files, pop_key_list, argVars, hdrVars,
                   loopVars, writeVars>>
    /\ UNCHANGED stdout

\* ------------------------------------------------------------------ ModflowRch.write_file
\* f_rch = open(self.fn_path, 'w'); the heading; '{0:10d}{1:10d}\n'.format(nrchop, irchcb)
RchWriteOpen ==
    /\ pc = "built" /\ pkg = "RCH"
    /\ fh' = "open"
    /\ f' = << <<StrTok(Hash), StrTok(WRCH)>>, <<IntTok(pak.nop), IntTok(pak.cb)>> >>
    /\ sealed' = TRUE
    /\ kper' = 0
    /\ orig' = pak
    /\ pc' = "write"
    /\ UNCHANGED <<pkg, pos, line, modelVars, argVars, hdrVars, loopVars, given, pak, err>>
    /\ UNCHANGED stdout

\* The lines of stress period k:
\*   inrech = 1 if n < len(self.rech) else -1; inirch likewise; the control line;
\*   if n < len(self.rech): rech[n].get_file_entry()
\*   if n < len(self.irch) and nrchop == 2: irch[n].get_file_entry()
RchStepLines(p, k) ==
    LET rech == p.arrays["rech"]
        irch == p.arrays["irch"]
        inrech == IF k < Len(rech) THEN 1 ELSE -1
        inirch == IF k < Len(irch) THEN 1 ELSE -1
    IN  << <<IntTok(inrech), IntTok(inirch), StrTok(Hash), IntTok(k + 1)>> >>
        \o (IF k < Len(rech) THEN <<FileEntry(rech[k + 1])>> ELSE <<>>)
        \o (IF k < Len(irch) /\ p.nop = 2 THEN <<FileEntry(irch[k + 1])>> ELSE <<>>)

\* for n in range(nper): ... one stress period
RchWriteStep ==
    /\ pc = "write" /\ pkg = "RCH" /\ kper < mnper
    /\ f' = f \o RchStepLines(orig, kper)
    /\ kper' = kper + 1
    /\ UNCHANGED <<pc, pkg, sealed, pos, fh, line, modelVars, argVars, hdrVars, loopVars,
                   orig, given, pak, err>>
    /\ UNCHANGED stdout

\* f_rch.close()
RchWriteClose ==
    /\ pc = "write" /\ pkg = "RCH" /\ kper >= mnper
    /\ fh' = "closed"
    /\ pc' = "written"
    /\ UNCHANGED <<pkg, f, sealed, pos, line, modelVars, argVars, hdrVars, loopVars,
                   writeVars, pak, err>>
    /\ UNCHANGED stdout

\* ------------------------------------------------------------------ ModflowMnw1
\* Largest number of wells of one stress period.
MaxWells == 1


\* The words of the MNW1 file, as character codes.
Mnw1Word(w) ==
    CASE w = "MNW1" -> <<77, 78, 87, 49>>
      [] w = "REF" -> <<82, 69, 70>>
      [] w = "SKIN" -> <<83, 75, 73, 78>>
      [] w = "FILE:" -> <<70, 73, 76, 69, 58>>
      [] w = "wl1" -> <<119, 108, 49>>
      [] w = "ByNode" -> <<66, 121, 78, 111, 100, 101>>
      [] w = "Qsum" -> <<81, 115, 117, 109>>
      [] w = "txt" -> <<116, 120, 116>>
      [] w = "WEL1:" -> <<87, 69, 76, 49, 58>>
      [] w = "BYNODE:" -> <<66, 89, 78, 79, 68, 69, 58>>
      [] w = "QSUM:" -> <<81, 83, 85, 77, 58>>
      [] w = "ALLTIME" -> <<65, 76, 76, 84, 73, 77, 69>>
      [] w = "PREFIX:" -> <<80, 82, 69, 70, 73, 88, 58>>
      [] w = "MN" -> <<77, 78>>
      [] w = "well" -> <<119, 101, 108, 108>>

\* A well node (lay, row, col, qdes, MN flag): node j of the 1-based stress
\* period p, qdes in thousandths.
Node(p, j) == [kind |-> "node", lay |-> 1, row |-> p, col |-> j, qdes |-> -1000 * j, flag |-> Mnw1Word("MN")]

\* The argument itmp: a number, or a list of one number for each stress period.
ItmpArgs ==
    {[scalar |-> TRUE, n |-> n, a |-> <<>>] : n \in 0..MaxWells}
    \cup {[scalar |-> FALSE, n |-> 0, a |-> a] : a \in [1..mnper -> 0..MaxWells]}

\* self.assignarray_old(self.itmp, itmp): the zeros of self.itmp take the
\* values of the argument, a number for every stress period.
AssignArrayOld(n, arg) == IF arg.scalar THEN [i \in 1..n |-> arg.n] ELSE arg.a

\* The argument wel1_bynode_qsum: None (the default, some = FALSE) or a list
\* of entries [file name, unit] or [file name, unit, 'ALLTIME'], each told by
\* the extension of its file name and its length.
WelEntry(ext, unit, len) == [ext |-> ext, unit |-> unit, len |-> len]
WelArgs ==
    {[some |-> FALSE, v |-> <<>>]}
    \cup {[some |-> TRUE, v |-> v] :
            v \in {<<>>, <<WelEntry(Mnw1Word("ByNode"), 92, 3)>>,
                   <<WelEntry(Mnw1Word("Qsum"), 93, 2), WelEntry(Mnw1Word("wl1"), 91, 2)>>,
                   <<WelEntry(Mnw1Word("txt"), 94, 2)>>}}

\* The wells of each stress period, itmp[p] of them in period p.
NodesOf(itmp) == [p \in 1..Len(itmp) |-> [j \in 1..itmp[p] |-> Node(p, j)]]

RECURSIVE Flatten(_)
Flatten(ss) == IF ss = <<>> THEN <<>> ELSE Head(ss) \o Flatten(Tail(ss))

\* The argument lay_row_col_qdes_mn_multi for these wells: None (the default),
\* a list of one array of nodes for each stress period, or one list of all nodes.
NodeArg(form, nodes) ==
    [form |-> form,
     v |-> CASE form = "none" -> <<>>
             [] form = "byperiod" ->
                  [p \in 1..Len(nodes) |-> [kind |-> "array", rows |-> nodes[p]]]
             [] form = "flat" -> Flatten(nodes)]

Max(S) == CHOOSE x \in S : \A y \in S : y <= x

\* ModflowMnw1(model, mxmnw, ..., wel1_bynode_qsum, itmp, lay_row_col_qdes_mn_multi,
\* mnwname) called by the user.
\*   for each in self.wel1_bynode_qsum: assert each[0].split('.')[1] in auxFileExtensions
\*   assert self.itmp.max() <= self.mxmnw
Mnw1New ==
    /\ pc = "idle"
    /\ pkg' = "MNW1"
    /\ \E mx \in {0, MaxWells}, wel \in WelArgs, it \in ItmpArgs,
          form \in {"none", "byperiod", "flat"}, name \in {<<>>, Mnw1Word("well")} :
        LET itmp == AssignArrayOld(mnper, it) IN
        /\ given' = [ftype |-> "MNW1", itmp |-> itmp, nodes |-> NodesOf(itmp)]
        /\ IF ~wel.some THEN Fail("TypeError") /\ UNCHANGED <<packages, pak>>
           ELSE IF \E i \in 1..Len(wel.v) : wel.v[i].ext \notin {Mnw1Word("wl1"), Mnw1Word("ByNode"), Mnw1Word("Qsum")}
           THEN Fail("AssertionError") /\ UNCHANGED <<packages, pak>>
           ELSE IF itmp = <<>> THEN Fail("ValueError") /\ UNCHANGED <<packages, pak>>
           ELSE IF Max({itmp[i] : i \in 1..Len(itmp)}) > mx
           THEN Fail("AssertionError") /\ UNCHANGED <<packages, pak>>
           ELSE /\ pak' = [made |-> TRUE, ftype |-> "MNW1", nop |-> 0, cb |-> 0,
                           arrays |-> [q \in AllQ |-> EmptyDict],
                           nper |-> mnper, mxmnw |-> mx, iwl2cb |-> 0, iwelpt |-> 0,
                           nomoiter |-> 0, kspref |-> 1, losstype |-> Mnw1Word("SKIN"),
                           wel1_bynode_qsum |-> wel.v, itmp |-> itmp,
                           lay_row_col_qdes_mn_multi |-> NodeArg(form, NodesOf(itmp)),
                           mnwname |-> name]
                /\ packages' = Append(packages, "MNW1")
                /\ pc' = "built" /\ err' = err
    /\ UNCHANGED <<streamVars, mnper, verbose, output_files, pop_key_list, argVars, hdrVars,
                   loopVars, kper, orig>>
    /\ UNCHANGED stdout

\* Sections 3a, 3b, 3c: the entries with extension wl1, then those with ByNode,
\* then those with Qsum; a ByNode or Qsum entry of length 3 ends with its flag.
Mnw1FileLines(wel, ext, key) ==
    LET pick == SelectSeq(wel, LAMBDA e : e.ext = ext /\ (ext = Mnw1Word("wl1") \/ e.len \in {2, 3}))
    IN  [i \in 1..Len(pick) |->
           <<StrTok(Mnw1Word("FILE:")), StrTok(pick[i].ext), StrTok(key), IntTok(pick[i].unit)>>
           \o (IF ext # Mnw1Word("wl1") /\ pick[i].len = 3 THEN <<StrTok(Mnw1Word("ALLTIME"))>> ELSE <<>>)]

\* f_mnw1 = open(self.file_name[0], 'w'); the heading; sections 1, 2 and 3
Mnw1WriteOpen ==
    /\ pc = "built" /\ pkg = "MNW1"
    /\ fh' = "open"
    /\ f' = << <<StrTok(Hash), StrTok(Mnw1Word("MNW1"))>>,
               <<IntTok(pak.mxmnw), IntTok(pak.iwl2cb), IntTok(pak.iwelpt), IntTok(pak.nomoiter),
                 StrTok(Mnw1Word("REF")), IntTok(pak.kspref)>>,
               <<StrTok(pak.losstype)>> >>
             \o Mnw1FileLines(pak.wel1_bynode_qsum, Mnw1Word("wl1"), Mnw1Word("WEL1:"))
             \o Mnw1FileLines(pak.wel1_bynode_qsum, Mnw1Word("ByNode"), Mnw1Word("BYNODE:"))
             \o Mnw1FileLines(pak.wel1_bynode_qsum, Mnw1Word("Qsum"), Mnw1Word("QSUM:"))
    /\ sealed' = TRUE
    /\ kper' = 0
    /\ orig' = pak
    /\ pc' = "write"
    /\ UNCHANGED <<pkg, pos, line, modelVars, argVars, hdrVars, loopVars, given, pak, err>>
    /\ UNCHANGED stdout

\* '%10i%10i%10i %10f %s \n' % (node[0], node[1], node[2], node[3], node[4])
NodeLine(n) == <<IntTok(n.lay), IntTok(n.row), IntTok(n.col), FloatTok(n.qdes), StrTok(n.flag)>>

\* What "for node in self.lay_row_col_qdes_mn_multi: f_mnw1.write(...)" does:
\* the lines written, and the exception that ends the loop if there is one.
\* None is not iterable; an entry that is an array of nodes has rows where
\* the format wants numbers, and no row 4 if it has fewer than five rows.
Mnw1NodeLines(arg) ==
    IF arg.form = "none" THEN [err |-> "TypeError", lines |-> <<>>]
    ELSE IF arg.v = <<>> THEN [err |-> None, lines |-> <<>>]
    ELSE IF arg.v[1].kind = "array"
    THEN [err |-> IF Len(arg.v[1].rows) < 5 THEN "IndexError" ELSE "TypeError", lines |-> <<>>]
    ELSE [err |-> None, lines |-> [i \in 1..Len(arg.v) |-> NodeLine(arg.v[i])]]

\* for p in range(self.nper): section 4, the ITMP line; section 5, the nodes
Mnw1WriteStep ==
    /\ pc = "write" /\ pkg = "MNW1" /\ kper < orig.nper
    /\ LET r == Mnw1NodeLines(orig.lay_row_col_qdes_mn_multi) IN
       /\ f' = f \o << <<IntTok(orig.itmp[kper + 1])>> >> \o r.lines
       /\ IF r.err # None THEN Fail(r.err) /\ kper' = kper
          ELSE kper' = kper + 1 /\ UNCHANGED <<pc, err>>
    /\ UNCHANGED <<pkg, sealed, pos, fh, line, modelVars, argVars, hdrVars, loopVars,
                   orig, given, pak>>
    /\ UNCHANGED stdout

\* if self.mnwname: f_mnw1.write('PREFIX:%s\n' % self.mnwname); f_mnw1.close()
Mnw1WriteClose ==
    /\ pc = "write" /\ pkg = "MNW1" /\ kper >= orig.nper
    /\ f' = f \o (IF orig.mnwname # <<>> THEN << <<StrTok(Mnw1Word("PREFIX:")), StrTok(orig.mnwname)>> >>
                  ELSE <<>>)
    /\ fh' = "closed"
    /\ pc' = "written"
    /\ UNCHANGED <<pkg, sealed, pos, line, modelVars, argVars, hdrVars, loopVars,
                   writeVars, pak, err>>
    /\ UNCHANGED stdout

\* ------------------------------------------------------------------ ModflowLmt
\* The words of the LMT file and of the constructor arguments, as character codes.
LmtWord(w) ==
    CASE w = "LMT" ->
           <<76, 77, 84>>
      [] w = "OUTPUT_FILE_NAME" ->
           <<79, 85, 84, 80, 85, 84, 95, 70, 73, 76, 69, 95, 78, 65, 77, 69>>
      [] w = "OUTPUT_FILE_UNIT" ->
           <<79, 85, 84, 80, 85, 84, 95, 70, 73, 76, 69, 95, 85, 78, 73, 84>>
      [] w = "OUTPUT_FILE_HEADER" ->
           <<79, 85, 84, 80, 85, 84, 95, 70, 73, 76, 69, 95, 72, 69, 65, 68, 69, 82>>
      [] w = "OUTPUT_FILE_FORMAT" ->
           <<79, 85, 84, 80, 85, 84, 95, 70, 73, 76, 69, 95, 70, 79, 82, 77, 65, 84>>
      [] w = "mt3d_link.ftl" ->
           <<109, 116, 51, 100, 95, 108, 105, 110, 107, 46, 102, 116, 108>>
      [] w = "extended" ->
           <<101, 120, 116, 101, 110, 100, 101, 100>>
      [] w = "unformatted" ->
           <<117, 110, 102, 111, 114, 109, 97, 116, 116, 101, 100>>
      [] w = "other.ftl" ->
           <<111, 116, 104, 101, 114, 46, 102, 116, 108>>
      [] w = "standard" ->
           <<115, 116, 97, 110, 100, 97, 114, 100>>
      [] w = "formatted" ->
           <<102, 111, 114, 109, 97, 116, 116, 101, 100>>

\* The arguments of ModflowLmt(model, output_file_name, output_file_unit,
\* output_file_header, output_file_format): the defaults and other values.
LmtArgs ==
    [ftype : {"LMT"},
     output_file_name : {LmtWord("mt3d_link.ftl"), LmtWord("other.ftl")},
     output_file_unit : {54, 60},
     output_file_header : {LmtWord("extended"), LmtWord("standard")},
     output_file_format : {LmtWord("unformatted"), LmtWord("formatted")}]

\* ModflowLmt(model, ...) called by the user:
\*   self.output_file_name = 'mt3d_link.ftl'; self.output_file_unit = 54
\*   self.output_file_header = 'extended'; self.output_file_format = 'unformatted'
LmtNew ==
    /\ pc = "idle"
    /\ pkg' = "LMT"
    /\ \E a \in LmtArgs : given' = a
    /\ pak' = [made |-> TRUE, ftype |-> "LMT", nop |-> 0, cb |-> 0,
               arrays |-> [q \in AllQ |-> EmptyDict],
               output_file_name |-> LmtWord("mt3d_link.ftl"),
               output_file_unit |-> 54,
               output_file_header |-> LmtWord("extended"),
               output_file_format |-> LmtWord("unformatted")]
    /\ packages' = Append(packages, "LMT6")
    /\ pc' = "built"
    /\ UNCHANGED <<streamVars, mnper, verbose, output_files, pop_key_list, argVars, hdrVars,
                   loopVars, kper, orig, err>>
    /\ UNCHANGED stdout

\* write_file: the heading and the four records, then f_lmt.close()
LmtWrite ==
    /\ pc = "built" /\ pkg = "LMT"
    /\ f' = << <<StrTok(Hash), StrTok(LmtWord("LMT"))>>,
               <<StrTok(LmtWord("OUTPUT_FILE_NAME")), StrTok(pak.output_file_name)>>,
               <<StrTok(LmtWord("OUTPUT_FILE_UNIT")), IntTok(pak.output_file_unit)>>,
               <<StrTok(LmtWord("OUTPUT_FILE_HEADER")), StrTok(pak.output_file_header)>>,
               <<StrTok(LmtWord("OUTPUT_FILE_FORMAT")), StrTok(pak.output_file_format)>> >>
    /\ sealed' = TRUE
    /\ fh' = "closed"
    /\ orig' = pak
    /\ pc' = "written"
    /\ UNCHANGED <<pkg, pos, line, modelVars, argVars, hdrVars, loopVars, kper, given, pak, err>>
    /\ UNCHANGED stdout

Next ==
    \/ EvtLoadCall
    \/ EvtLoadHeading
    \/ EvtLoadParameter
    \/ EvtLoadDataset2
    \/ EvtLoadParms
    \/ EvtLoadControl
    \/ EvtLoadSurf
    \/ EvtLoadEvtr
    \/ EvtLoadParName
    \/ EvtLoadParFill
    \/ EvtLoadExdp
    \/ EvtLoadIevt
    \/ EvtLoadCreate
    \/ RchLoadCall
    \/ RchLoadHeading
    \/ RchLoadParameter
    \/ RchLoadDataset2
    \/ RchLoadControl
    \/ RchLoadRech
    \/ RchLoadIrch
    \/ RchLoadCreate
    \/ EvtNew
    \/ EvtWriteOpen
    \/ EvtWriteStep
    \/ EvtWriteClose
    \/ RchNew
    \/ RchWriteOpen
    \/ RchWriteStep
    \/ RchWriteClose
    \/ Mnw1New
    \/ Mnw1WriteOpen
    \/ Mnw1WriteStep
    \/ Mnw1WriteClose
    \/ LmtNew
    \/ LmtWrite

Spec == Init /\ [][Next]_vars

\* The program is sequential and synchronous: a call that can take a step
\* takes it.
FairSpec == Spec /\ WF_vars(Next)

\* ------------------------------------------------------------------ properties
\* The array a timeline holds for the 0-based step k: key k of a dict of
\* ModflowEvt.load, element k of a list of ModflowRch.load.
HasStep(q, k) == IF q \in {"rech", "irch"} THEN k + 1 <= Len(tl[q]) ELSE k \in DOMAIN tl[q]
StepArray(q, k) == IF q \in {"rech", "irch"} THEN tl[q][k + 1] ELSE tl[q][k]

\* C1: for every quantity and every step k > 0 whose control code for the
\* quantity is negative, the array stored for step k is the very same object
\* (same identity, not only same content) as the array stored for step k-1;
\* and whatever the code, the array stored for the step is the current array,
\* the one read at the last step whose code was non-negative.
C1_ReuseIsSameObject ==
    \A q \in AllQ :
        HasStep(q, iper) =>
            /\ StepArray(q, iper) = current[q]
            /\ (iper > 0 /\ inq[q] < 0) => StepArray(q, iper) = StepArray(q, iper - 1)

\* An EVT load has stored, for step 1 of surf, the array read at step 0
\* because the code of step 1 was negative.
C1_Witness ==
    /\ pkg = "EVT" /\ pc = "evtr" /\ iper = 1 /\ inq["surf"] < 0
    /\ HasStep("surf", 1) /\ tl["surf"][1].id > 0 /\ tl["surf"][1] = tl["surf"][0]

\* C2: a negative control code at step 0 of an ungated quantity ends the load
\* in NoPriorArray: no timeline ever holds, at any step, the empty list of a
\* quantity that was reused before any array was read for it.
C2_NoReuseWhileUnset ==
    \A q \in AllQ : \A k \in 0..MaxPer :
        (HasStep(q, k) /\ IsUnset(StepArray(q, k))) => (pc = "error" /\ err = "NoPriorArray")

\* C3: with the layer-index quantity gated off (nevtop # 2, nrchop # 2) its
\* part of a step reads no line and stores nothing: the stream position, the
\* line last read, the quantity's timeline and its current array are as they
\* were, and the loop goes on to the next step.
C3_GatedReadsNothing ==
    [][ /\ (pc = "ievt" /\ pkg = "EVT" /\ nevtop # 2) =>
            /\ pos' = pos /\ line' = line /\ sealed' = sealed
            /\ tl'["ievt"] = tl["ievt"] /\ current'["ievt"] = current["ievt"]
            /\ tl["ievt"] = EmptyDict /\ nid' = nid
            /\ pc' = "loop" /\ iper' = iper + 1
        /\ (pc = "irch" /\ pkg = "RCH" /\ nrchop # 2) =>
            /\ pos' = pos /\ line' = line /\ sealed' = sealed
            /\ tl'["irch"] = tl["irch"] /\ current'["irch"] = current["irch"]
            /\ tl["irch"] = <<>> /\ nid' = nid
            /\ pc' = "loop" /\ iper' = iper + 1
      ]_vars

\* An EVT load with nevtop = 3 has finished two steps, the second with the
\* control line "-1 -1 -1 1": ievt non-negative in the text, and nothing read for it.
C3_Witness ==
    /\ pkg = "EVT" /\ nevtop = 3 /\ pc = "loop" /\ iper = 2
    /\ line = Line(EvtControl(-1, -1, -1, 1))
    /\ tl["ievt"] = EmptyDict /\ nid = 3

\* The quantities of a package record, and those its option code does not
\* gate off.
Quantities(p) == IF p.ftype = "RCH" THEN {"rech", "irch"} ELSE {"surf", "evtr", "exdp", "ievt"}
Ungated(p) == IF p.nop = 2 THEN Quantities(p) ELSE Quantities(p) \ {"ievt", "irch"}

\* A quantity of a record is supplied at step 0.
Supplied(p, q) ==
    IF p.ftype = "RCH" THEN Len(p.arrays[q]) >= 1 ELSE 0 \in DOMAIN p.arrays[q]

\* resolved_array(q, k): the array in force at step k, the one of the last
\* step <= k that supplies one.
ResolvedArray(p, q, k) ==
    LET d == p.arrays[q] IN
    IF p.ftype = "RCH" THEN d[IF k + 1 <= Len(d) THEN k + 1 ELSE Len(d)]
    ELSE d[CHOOSE j \in DOMAIN d : j <= k /\ \A i \in DOMAIN d : i <= k => i <= j]

\* Two arrays of the same element type and content.
SameArray(a, b) == a.d = b.d /\ a.v = b.v

\* The record loaded agrees with the record written on the quantities Q at
\* every step.
SameTimelines(Q) ==
    \A q \in Q : \A k \in 0..(mnper - 1) :
        Supplied(pak, q) /\ SameArray(ResolvedArray(orig, q, k), ResolvedArray(pak, q, k))

\* C4 as claimed: for a record with nsteps >= 1 and every quantity supplied at
\* step 0, the load of the file write_file produced yields for every quantity
\* and every step the same resolved array as the record written.
C4_RoundTripEveryQuantity ==
    (/\ orig.made /\ pc = "done" /\ mnper >= 1
     /\ \A q \in Quantities(orig) : Supplied(orig, q))
    => SameTimelines(Quantities(orig))

\* C4 as amended: for a record with nsteps >= 1 and every ungated quantity
\* supplied at step 0, the load (nper left to the model's geometry) of the file
\* write_file produced does not fail, ends exactly at the end of the file, and
\* yields for every ungated quantity and every step the same resolved array
\* as the record written.
C4_RoundTripUngated ==
    (/\ orig.made /\ nperArg = NoInt /\ mnper >= 1
     /\ \A q \in Ungated(orig) : Supplied(orig, q))
    => /\ pc # "error"
       /\ pc = "done" => (pos = Len(f) /\ SameTimelines(Ungated(orig)))

\* An EVT record with nevtop = 2 whose surf is reused at step 1 while evtr has
\* a new array there has been written and loaded back.
C4_Witness ==
    /\ pc = "done" /\ pkg = "EVT" /\ orig.made /\ orig.nop = 2 /\ mnper = 2
    /\ nperArg = NoInt
    /\ DOMAIN orig.arrays["surf"] = {0} /\ DOMAIN orig.arrays["evtr"] = {0, 1}
    /\ orig.arrays["ievt"][0].v # EvtDefault("ievt").v

\* The number of numeric tokens of a line, and the number of control codes a
\* step's control line must hold in the mode of the running load.
NumericTokens(l) == Cardinality({i \in 1..Len(l.toks) : l.toks[i].k # "str"})
RequiredCodes ==
    IF pkg = "EVT" THEN (IF nevtop = 2 THEN 4 ELSE 3) ELSE (IF nrchop = 2 THEN 2 ELSE 1)

\* C5: a step whose control line holds fewer numeric tokens than the mode
\* requires (EVT: 3, or 4 when nevtop == 2; RCH: 1, or 2 when nrchop == 2) ends
\* the load in an error, with no package record constructed.
C5_ShortControlLineFails ==
    [][ (/\ pc = "loop" /\ iper < nper
         /\ ~line'.eof /\ NumericTokens(line') < RequiredCodes)
        => (pc' = "error" /\ ~pak'.made /\ packages' = <<>>)
      ]_vars

\* An EVT load with nevtop = 3 has failed at step 1 on the control line "1 1".
C5_Witness ==
    /\ pkg = "EVT" /\ pc = "error" /\ err = "IndexError" /\ iper = 1 /\ nevtop = 3
    /\ line = Line(<<IntTok(1), IntTok(1)>>)
    /\ ~pak.made

\* C6: when the stream is exhausted where the control line of a step is due,
\* the load ends in an error at that step: the step counter does not advance,
\* nothing is added to a timeline and no package record is constructed.
C6_MissingStepFails ==
    [][ (pc = "loop" /\ iper < nper /\ line'.eof)
        => (pc' = "error" /\ iper' = iper /\ tl' = tl /\ ~pak'.made /\ packages' = <<>>)
      ]_vars

\* An EVT load of two steps has read step 0 in full and met the end of the
\* stream where the control line of step 1 was due.
C6_Witness ==
    /\ pkg = "EVT" /\ pc = "error" /\ err = "IndexError" /\ line.eof
    /\ nper = 2 /\ iper = 1 /\ HasStep("exdp", 0) /\ ~HasStep("surf", 1)
    /\ ~pak.made

\* C7: a failed load leaves no trace: in every state a load failed in, no
\* package record exists, no package has been added to the model, and no unit
\* has been registered with add_output_file or add_pop_key_list.
C7_FailedLoadLeavesNoTrace ==
    pc = "error" =>
        /\ ~pak.made /\ packages = <<>>
        /\ output_files = {} /\ pop_key_list = {}

\* C8: the stream a load or write_file call opened is closed once the call is
\* over, whether it returned or failed.
C8_StreamClosedOnExit == pc \in {"done", "error", "written"} => fh = "closed"

\* C9: with a parameter table active, a parameter-name line that names a known
\* parameter and no instance, or an instance that is not in the parameter's
\* instance map, selects the instance 'static', and the load goes on.
C9_AbsentInstanceIsStatic ==
    [][ (/\ pc = "parname" /\ pkg = "EVT" /\ ipar < inq["evtr"]
         /\ line'.toks # <<>>
         /\ ParName(TokStr(line'.toks[1])) \in DOMAIN pak_parms
         /\ \/ Len(line'.toks) < 2
            \/ Lower(TokStr(line'.toks[2])) \notin pak_parms[ParName(TokStr(line'.toks[1]))])
        => /\ pc' = "parname" /\ err' = err /\ ipar' = ipar + 1
           /\ parm_dict'[ParName(TokStr(line'.toks[1]))] = WStatic
      ]_vars

\* The parameter "et", defined with the instances 'static' and "i1", has been
\* named with the instance "i2" and mapped to 'static'.
C9_Witness ==
    /\ pkg = "EVT" /\ pc = "parname" /\ ipar = 1
    /\ line = Line(<<StrTok(NameEt), StrTok(InstI2)>>)
    /\ NameEt \in DOMAIN pak_parms /\ Lower(InstI1) \in pak_parms[NameEt]
    /\ NameEt \in DOMAIN parm_dict /\ parm_dict[NameEt] = WStatic

\* C10: a parameter-name line whose name is not a key of the parameter table
\* fails the load with UnknownParameter: no name that the table does not hold
\* is ever mapped to an instance.
C10_UnknownNameRejected == \A p \in DOMAIN parm_dict : p \in DOMAIN pak_parms

\* A line that belongs to the record after the parameter names: an array
\* control record, or a control line (it starts with a number).
NextRecordLine(l) ==
    /\ l.toks # <<>>
    /\ \/ l.toks[1].k # "str"
       \/ Lower(l.toks[1].s) = WConstant

\* C11: with a parameter table active and evtr code N, the load fails when
\* fewer than N parameter-name lines follow the control line: where a name is
\* due and the stream is at its end or at a line of the next record, the load
\* ends in an error and the line is not taken as a parameter name.
C11_TooFewNamesFails ==
    [][ (/\ pc = "parname" /\ pkg = "EVT" /\ ipar < inq["evtr"]
         /\ (line'.eof \/ NextRecordLine(line')))
        => (pc' = "error" /\ parm_dict' = parm_dict)
      ]_vars

\* C12: no error met during a load is replaced by a default value:
\*  - a RCH load that has gone past the header line has found an integer in its
\*    second field (it has not set irchcb = 0 for a missing or malformed one);
\*  - an EVT load that has gone past a parameter-name line has found the name
\*    in the parameter table (it has not taken 'static' for a failed lookup);
\*  - an EVT load that returns a record has given it the option code of the
\*    header line (it has not left the constructor default 3 in its place).
C12_NoErrorDefaulted ==
    /\ (pkg = "RCH" /\ pc = "loop" /\ iper = 0) => IntAt(line.toks, 1).ok
    /\ (pkg = "EVT" /\ pc = "parname" /\ ipar >= 1)
           => ParName(TokStr(line.toks[1])) \in DOMAIN pak_parms
    /\ (pkg = "EVT" /\ pc = "done") => pak.nop = nevtop

\* What one step of ModflowEvt.load does to everything but standard output,
\* as a relation between the state before and the state after, for the value
\* v of model.verbose.
EvtLoadRelation(v) ==
    \/ EvtLoadCallCore(v)
    \/ EvtLoadHeading
    \/ EvtLoadParameterCore(v)
    \/ EvtLoadDataset2
    \/ EvtLoadParmsCore(v)
    \/ EvtLoadControl
    \/ EvtLoadSurfCore(v)
    \/ EvtLoadEvtrCore(v)
    \/ EvtLoadParName
    \/ EvtLoadParFill
    \/ EvtLoadExdpCore(v)
    \/ EvtLoadIevtCore(v)
    \/ EvtLoadCreate

\* A step of ModflowEvt.load, as opposed to one of the constructor called by
\* the user or of write_file.
IsEvtLoadStep ==
    /\ pkg' = "EVT"
    /\ pc \notin {"built", "write"}
    /\ pc' \notin {"built", "write", "written"}

C14_ExplicitNperSameOutcome ==
    pc = "error" => err # "NameError"

\* The step indices a timeline of the running load holds (a list of the RCH
\* loader holds the indices 0 .. len - 1), and the quantities the option code
\* of the running load does not gate off.
StepIndices(q) == IF q \in {"rech", "irch"} THEN 0..(Len(tl[q]) - 1) ELSE DOMAIN tl[q]
LoadUngated ==
    IF pkg = "RCH" THEN (IF nrchop = 2 THEN {"rech", "irch"} ELSE {"rech"})
    ELSE (IF nevtop = 2 THEN {"surf", "evtr", "exdp", "ievt"} ELSE {"surf", "evtr", "exdp"})
InStep == pc \in {"surf", "evtr", "parname", "exdp", "ievt", "rech", "irch"}

\* C15: the timeline of every ungated quantity has no gap and no extra index:
\* between two iterations, i iterations done, it holds exactly the indices
\* 0 .. i-1; inside iteration i it holds 0 .. i-1 or 0 .. i; and after a
\* successful load with nsteps = n it holds exactly 0 .. n-1.
C15_TimelinesHaveEveryStep ==
    \A q \in LoadUngated :
        /\ pc = "loop" => StepIndices(q) = 0..(iper - 1)
        /\ InStep => StepIndices(q) \in {0..(iper - 1), 0..iper}
        /\ pc = "done" => StepIndices(q) = 0..(nper - 1)

\* A successful two-step EVT load of a hand-made file whose second step reuses
\* the surf array: the surf timeline has the indices 0 and 1.
C15_Witness ==
    /\ pkg = "EVT" /\ pc = "done" /\ ~orig.made /\ nper = 2 /\ nevtop = 3
    /\ inq["surf"] < 0 /\ DOMAIN tl["surf"] = {0, 1} /\ tl["surf"][1].id > 0

\* C16: the header line write_file emits is read back to the same fields:
\* after a record is written and the file is loaded, the loaded record has the
\* original's option code (nevtop / nrchop) and budget unit (ipakcb / irchcb).
C16_HeaderRoundTrip ==
    (pc = "done" /\ orig.made) => (pak.nop = orig.nop /\ pak.cb = orig.cb)

\* The part of an iteration that processes the code of quantity q: the array
\* read (surf, evtr, exdp, ievt, rech, irch) and, for evtr with parameters, the
\* parameter fill that ends the name lines.
OwnPart(q) == pc = q \/ (q = "evtr" /\ pc = "parname")

\* C17: the current array of a quantity changes only in the part of an
\* iteration that processes that quantity's own code, and only if the code is
\* non-negative and the quantity is not gated off; processing one quantity's
\* code leaves every other quantity's current array as it was.
C17_CurrentArrayFrame ==
    [][ \A q \in AllQ :
          current'[q] # current[q] => (OwnPart(q) /\ inq[q] >= 0 /\ q \in LoadUngated)
      ]_vars

\* An RCH load in mode 2 whose second step reuses rech and reads irch: the
\* current rech array is still the first array read, the current irch array is
\* the third.
C17_Witness ==
    /\ pkg = "RCH" /\ nrchop = 2 /\ pc = "loop" /\ iper = 2
    /\ inq["rech"] < 0 /\ current["rech"].id = 1 /\ current["irch"].id = 3

\* The order of the parts of ModflowEvt.load: the part that may follow each
\* part of a load that goes on.
EvtLoadSuccessors ==
    [heading |-> {"heading", "parameter"}, parameter |-> {"dataset2"},
     dataset2 |-> {"parms"}, parms |-> {"parms", "loop"}, loop |-> {"surf", "done"},
     surf |-> {"evtr"}, evtr |-> {"parname", "exdp"}, parname |-> {"parname", "exdp"},
     exdp |-> {"ievt"}, ievt |-> {"loop"}]

\* One step of the load keeps the order: the next part is the successor of the
\* present one, the stream only moves forward by at most one line, the step
\* counter goes up by one exactly when the ievt part hands over to the next
\* step, and a timeline gets an entry only in its own part, under the index of
\* the present step.
EvtLoadStepInOrder ==
    (pkg = "EVT" /\ pkg' = "EVT" /\ pc \in DOMAIN EvtLoadSuccessors)
    => /\ pc' \in EvtLoadSuccessors[pc] \cup {"error"}
       /\ pos' \in {pos, pos + 1}
       /\ iper' = IF pc = "ievt" /\ pc' = "loop" THEN iper + 1
                  ELSE IF pc = "dataset2" THEN 0 ELSE iper
       /\ \A q \in {"surf", "evtr", "exdp", "ievt"} :
            tl'[q] # tl[q] => (OwnPart(q) /\ DOMAIN tl'[q] = DOMAIN tl[q] \cup {iper})

\* The blocks write_file owes for step k after its control line: for surf,
\* evtr, exdp and, in mode 2, ievt, in this order, the array of each quantity
\* the record holds an entry of for step k.
EvtBlocksDue(p, k) ==
    LET due(q) == IF k \in DOMAIN p.arrays[q] THEN <<FileEntry(p.arrays[q][k])>> ELSE <<>>
    IN  due("surf") \o due("evtr") \o due("exdp")
        \o (IF p.nop = 2 THEN due("ievt") ELSE <<>>)

\* The lines of a written file from line i on are the records of the steps
\* k, k+1, ... up to the last step written: a control line that names step
\* k + 1, then the blocks due for step k.
RECURSIVE EvtStepsInOrder(_, _, _, _, _)
EvtStepsInOrder(lines, p, i, k, last) ==
    IF k >= last THEN i = Len(lines) + 1
    ELSE LET b == EvtBlocksDue(p, k) IN
         /\ i + Len(b) <= Len(lines)
         /\ Len(lines[i]) = 6 /\ lines[i][5] = StrTok(Hash) /\ lines[i][6] = IntTok(k + 1)
         /\ \A j \in 1..4 : lines[i][j].k = "int"
         /\ \A j \in 1..Len(b) : lines[i + j] = b[j]
         /\ EvtStepsInOrder(lines, p, i + 1 + Len(b), k + 1, last)

\* The file write_file has produced so far: the heading, the header, then the
\* steps in increasing order.
EvtWrittenInOrder ==
    (pkg = "EVT" /\ orig.made /\ sealed)
    => /\ Len(f) >= 2
       /\ FirstCharIsHash(Line(f[1]))
       /\ f[2] = <<IntTok(orig.nop), IntTok(orig.cb)>>
       /\ EvtStepsInOrder(f, orig, 3, 0, kper)

\* C18: EVT write_file and load process the records of a file in one fixed
\* order: heading, header, then the steps in increasing order, each step as
\* its control line followed by the blocks of surf, evtr, exdp, ievt.
C18_FixedRecordOrder ==
    [](EvtWrittenInOrder) /\ [][EvtLoadStepInOrder]_vars

\* A record in mode 3 written for two steps and loaded back to the end of the
\* file, both steps with a surf block.
C18_Witness ==
    /\ pkg = "EVT" /\ pc = "done" /\ orig.made /\ orig.nop = 3 /\ mnper = 2 /\ iper = 2
    /\ DOMAIN orig.arrays["surf"] = {0, 1} /\ pos = Len(f) /\ Len(f) >= 6

\* C19: with evtr code N the dictionary handed to the parameter fill has
\* exactly N entries: every parameter-name line read adds an entry, also when
\* two lines name the same parameter or names that agree on their lower-cased
\* first ten characters.
C19_OneEntryPerNameLine ==
    (pkg = "EVT" /\ pc = "parname") => Cardinality(DOMAIN parm_dict) = ipar

\* C20: every load terminates, returning a record or failing: a load that
\* has opened its stream reaches "done" or "error", also on a stream that is
\* empty or holds only lines starting with '#'; and the per-step loop never
\* runs more than nper iterations.
C20_LoadTerminates ==
    /\ [](iper <= nper)
    /\ (pc = "heading") ~> (pc \in {"done", "error"})

\* An EVT load of a hand-made stream of '#' lines only has ended, failing at
\* the end of the stream inside the heading loop.
C20_Witness ==
    /\ pkg = "EVT" /\ pc = "error" /\ err = "IndexError" /\ line.eof /\ pos >= 2
    /\ ~orig.made /\ nperArg = NoInt /\ shape = Unbound /\ npar = 0 /\ nevtop = 0

\* A line of a written file is the array block of a quantity of type d.
IsBlock(l, d) ==
    /\ Len(l) = 2 /\ l[1] = StrTok(WConstant)
    /\ l[2].k = (IF d = "f" THEN "float" ELSE "int")

\* C21: a file ModflowRch.write_file has written step 0 of satisfies the
\* first-step rule: the step-0 control code of rech is non-negative and the
\* rech block follows the control line, and in mode 2 the same holds of irch,
\* whose block follows the rech block.
C21_RchFirstStepRule ==
    (pkg = "RCH" /\ orig.made /\ sealed /\ kper >= 1)
    => /\ Len(f) >= 4
       /\ f[3][1].k = "int" /\ f[3][1].n >= 0
       /\ IsBlock(f[4], "f")
       /\ orig.nop = 2 => (/\ Len(f) >= 5
                           /\ f[3][2].k = "int" /\ f[3][2].n >= 0
                           /\ IsBlock(f[5], "i"))

\* The ITMP lines of a written MNW1 file (one integer and nothing else), the
\* p-th of them, and the well-node records that follow a line directly.
ItmpLines == {i \in 1..Len(f) : Len(f[i]) = 1 /\ f[i][1].k = "int"}
NthItmpLine(p) == CHOOSE i \in ItmpLines : Cardinality({j \in ItmpLines : j < i}) = p - 1
IsNodeLine(l) == Len(l) = 5 /\ l[4].k = "float"
RecordsAfter(i) ==
    LET last == Max({j \in i..Len(f) : \A m \in (i + 1)..j : IsNodeLine(f[m])})
    IN  SubSeq(f, i + 1, last)

\* C22: in the file ModflowMnw1.write_file produces, every stress period
\* written has its ITMP line, and the well-node records after that line are
\* the nodes of the period, ITMP[p] of them.
C22_NodeRecordsMatchItmp ==
    (pkg = "MNW1" /\ pc \in {"write", "written"})
    => /\ Cardinality(ItmpLines) = kper
       /\ \A p \in 1..kper :
            LET recs == RecordsAfter(NthItmpLine(p)) IN
            /\ Len(recs) = f[NthItmpLine(p)][1].n
            /\ f[NthItmpLine(p)][1].n = given.itmp[p]
            /\ recs = [j \in 1..Len(given.nodes[p]) |-> NodeLine(given.nodes[p][j])]

\* C23: the file ModflowLmt.write_file produces carries the values given to
\* the constructor: its OUTPUT_FILE_NAME, OUTPUT_FILE_UNIT, OUTPUT_FILE_HEADER
\* and OUTPUT_FILE_FORMAT records hold the arguments output_file_name,
\* output_file_unit, output_file_header and output_file_format.
C23_LmtFileCarriesArguments ==
    (pkg = "LMT" /\ pc = "written")
    => /\ f[2] = <<StrTok(LmtWord("OUTPUT_FILE_NAME")), StrTok(given.output_file_name)>>
       /\ f[3] = <<StrTok(LmtWord("OUTPUT_FILE_UNIT")), IntTok(given.output_file_unit)>>
       /\ f[4] = <<StrTok(LmtWord("OUTPUT_FILE_HEADER")), StrTok(given.output_file_header)>>
       /\ f[5] = <<StrTok(LmtWord("OUTPUT_FILE_FORMAT")), StrTok(given.output_file_format)>>

====
